---- MODULE Spec2Model ----
(***************************************************************************)
(* Breakpoint-position resolution of the debugger                          *)
(* (src/actions/breakpoints/breakpointPositions.js).                       *)
(*                                                                         *)
(* The module-level map `requests` coalesces concurrent resolutions of one *)
(* source id.  A job of the JavaScript event loop (the synchronous part of  *)
(* a call up to its first await, a continuation after an await) is one     *)
(* action; the reactions of a settled promise are queued together, run     *)
(* back to back, and are part of the action that settles it.  The          *)
(* collaborators (client, sourceMaps) answer or fail at any later moment;  *)
(* the store's source records come and go.                                 *)
(***************************************************************************)
EXTENDS Integers, Sequences, FiniteSets, TLC

VARIABLES
    sources,      \* store: ids of the source records present
    bpPositions,  \* store: breakpoint positions per source id
    requests,     \* the in-flight map: source id -> task (0: no entry)
    tasks,        \* the resolution tasks ever started
    nextTask,     \* number of tasks started
    calls         \* the setBreakpointPositions calls

vars == <<sources, bpPositions, requests, tasks, nextTask, calls>>

(*************************** bounds ***************************************)
MaxCalls == 2
MaxTasks == 2

(*************************** source ids ***********************************)
GenId == "g1"
OrigId == "g1/originalSource-o1"
SourceIds == {GenId, OrigId}

isOriginalId(id) == id = OrigId

originalToGeneratedId(id) == IF id = OrigId THEN GenId ELSE id

UrlOf(id) == IF id = OrigId THEN "foo.src" ELSE "bundle.js"

SourceRecord(id) == [id |-> id, url |-> UrlOf(id)]

\* `undefined` as the value of a source lookup
NoSource == [id |-> "", url |-> ""]

\* selectors getSource / getSourceFromId: the record, or undefined
getSource(srcs, id) == IF id \in srcs THEN SourceRecord(id) ELSE NoSource

getSourceFromId(srcs, id) == getSource(srcs, id)

\* the store's table of positions: an absent entry, or a list
NoPositions == [has |-> FALSE, list |-> <<>>]

hasBreakpointPositions(table, id) == table[id].has

getBreakpointPositionsForSource(table, id) == table[id]

(*************************** ranges ***************************************)
Infinity == 1000

Pos(l, c) == [line |-> l, column |-> c]

RangeFinite == [start |-> Pos(1, 0), end |-> Pos(1, 5)]
RangeOpen   == [start |-> Pos(2, 0), end |-> Pos(2, Infinity)]

\* the answers of sourceMaps.getGeneratedRangesForOriginal
RangeLists == { <<>>, <<RangeOpen, RangeFinite>> }

\* more answers, for the runs of one pipeline
RangeOpenLate == [start |-> Pos(4, 2), end |-> Pos(6, Infinity)]
WideRangeLists ==
    RangeLists \cup { <<RangeFinite>>, <<RangeOpen>>, <<RangeFinite, RangeOpenLate>> }

\* mutant of NormalizeRange: the end stays on its line
NormalizeRangeSameLine(range) ==
    IF range.end.column = Infinity
    THEN [range EXCEPT !.end = Pos(range.end.line, 0)]
    ELSE range

\* lines 87-92: an infinite end column wraps to the start of the next line
NormalizeRange(range) ==
    IF range.end.column = Infinity
    THEN [range EXCEPT !.end = Pos(range.end.line + 1, 0)]
    ELSE range

(*************************** line -> columns tables ***********************)
EmptyTable == <<>>

\* the answers of client.getBreakpointPositions
BpsTables == { (1 :> <<0>>), (1 :> <<0, 1>>) @@ (2 :> <<0>>) }

\* more answers, for the runs of one pipeline: unsorted columns, other lines
WideBpsTables ==
    BpsTables \cup { EmptyTable, (2 :> <<5, 2>>), (3 :> <<1>>) @@ (1 :> <<1, 0>>) }

ColumnsOf(table, line) == IF line \in DOMAIN table THEN table[line] ELSE <<>>

\* mutant of MergeBps: the columns of a later range replace the earlier ones
MergeBpsOverwrite(results, bps) ==
    [line \in (DOMAIN results) \cup (DOMAIN bps) |->
        IF line \in DOMAIN bps THEN bps[line] ELSE results[line]]

\* lines 95-97: results[line] = (results[line] || []).concat(bps[line])
MergeBps(results, bps) ==
    [line \in (DOMAIN results) \cup (DOMAIN bps) |->
        IF line \in DOMAIN bps
        THEN ColumnsOf(results, line) \o bps[line]
        ELSE results[line]]

MinOf(S) == CHOOSE x \in S : \A y \in S : x <= y

\* integer keys of an object enumerate in ascending order
RECURSIVE LinesInOrder(_)
LinesInOrder(S) ==
    IF S = {} THEN <<>>
    ELSE <<MinOf(S)>> \o LinesInOrder(S \ {MinOf(S)})

GenLocation(line, column, source) ==
    [sourceId |-> source.id, line |-> line, column |-> column,
     sourceUrl |-> source.url]

RECURSIVE FlattenLines(_, _, _)
FlattenLines(results, order, source) ==
    IF order = <<>> THEN <<>>
    ELSE [i \in 1..Len(results[Head(order)]) |->
              GenLocation(Head(order), results[Head(order)][i], source)]
         \o FlattenLines(results, Tail(order), source)

\* lines 43-59
convertToList(results, source) ==
    FlattenLines(results, LinesInOrder(DOMAIN results), source)

(*************************** location mapping *****************************)
\* `null` as an original location
NullLocation == [sourceId |-> "", line |-> 0, column |-> 0, sourceUrl |-> ""]

\* the answers of sourceMaps.getOriginalLocations, by behaviour of the map
MapModes == {"same", "collapse", "unmapped"}

\* more answers, for the runs of one pipeline: "byLine" maps a line to one
\* original site, "reverse" answers with the values of "same" in reverse
\* order, "firstOnly" translates the first location only
WideMapModes == MapModes \cup {"byLine", "reverse", "firstOnly"}

OriginalOf(mode, loc) ==
    CASE mode = "same" ->
           [sourceId |-> OrigId, line |-> loc.line, column |-> loc.column,
            sourceUrl |-> UrlOf(OrigId)]
      [] mode = "collapse" ->
           [sourceId |-> OrigId, line |-> 7, column |-> 2,
            sourceUrl |-> UrlOf(OrigId)]
      [] mode = "byLine" ->
           [sourceId |-> OrigId, line |-> loc.line, column |-> 0,
            sourceUrl |-> UrlOf(OrigId)]
      [] OTHER -> NullLocation

getOriginalLocations(mode, generatedLocations) ==
    [i \in 1..Len(generatedLocations) |->
        CASE mode = "reverse" ->
               OriginalOf("same",
                          generatedLocations[Len(generatedLocations) + 1 - i])
          [] mode = "firstOnly" ->
               OriginalOf(IF i = 1 THEN "same" ELSE "unmapped",
                          generatedLocations[i])
          [] OTHER -> OriginalOf(mode, generatedLocations[i])]

\* mutant of zipLocations: a generated location is paired with the returned
\* location of its own line and column, where there is one
zipLocationsByValue(originalLocations, generatedLocations) ==
    [i \in 1..Len(generatedLocations) |->
        LET same == { j \in 1..Len(originalLocations) :
                        /\ originalLocations[j].line = generatedLocations[i].line
                        /\ originalLocations[j].column = generatedLocations[i].column }
        IN  [location |-> IF same = {} THEN originalLocations[i]
                          ELSE originalLocations[CHOOSE j \in same : TRUE],
             generatedLocation |-> generatedLocations[i]]]

\* lines 34-36: zip(originalLocations, generatedLocations)
zipLocations(originalLocations, generatedLocations) ==
    [i \in 1..Len(generatedLocations) |->
        [location |-> originalLocations[i],
         generatedLocation |-> generatedLocations[i]]]

\* utils/breakpoint makeBreakpointId: the identity of a location
makeBreakpointId(location) ==
    <<location.sourceId, location.line, location.column>>

\* lodash uniqBy: the first occurrence of every key, in input order
RECURSIVE uniqByKey(_, _)
uniqByKey(positions, seen) ==
    IF positions = <<>> THEN <<>>
    ELSE LET key == makeBreakpointId(Head(positions).location)
         IN  IF key \in seen
             THEN uniqByKey(Tail(positions), seen)
             ELSE <<Head(positions)>> \o uniqByKey(Tail(positions), seen \cup {key})

\* mutant of filterByUniqLocation: the last occurrence of every key is kept
filterByUniqLocationLast(positions) ==
    LET Reverse(seq) == [i \in 1..Len(seq) |-> seq[Len(seq) + 1 - i]]
    IN  Reverse(uniqByKey(Reverse(positions), {}))

\* lines 39-41
filterByUniqLocation(positions) == uniqByKey(positions, {})

HasNullLocation(positions) ==
    \E i \in 1..Len(positions) : positions[i].location = NullLocation


(*************************** the store ************************************)
\* reducer of {type: "ADD_BREAKPOINT_POSITIONS", source, positions}
AddBreakpointPositions(table, source, positions) ==
    [table EXCEPT ![source.id] = [has |-> TRUE, list |-> positions]]

(*************************** tasks ****************************************)
NoTask ==
    [pc |-> "none", sourceId |-> "", generatedSource |-> NoSource,
     rawRanges |-> <<>>, ranges |-> <<>>, idx |-> 0, fetched |-> <<>>,
     results |-> EmptyTable, generated |-> <<>>, originals |-> <<>>,
     mapped |-> <<>>, positions |-> <<>>, outcome |-> "pending", error |-> "",
     rangeCalls |-> 0, clientCalls |-> <<>>, mapCalls |-> 0, writes |-> 0,
     absentAtStart |-> FALSE, stale |-> FALSE]

\* a rejection of _setBreakpointPositions: the wrapper's `finally` is next
Throw(task, err) ==
    [task EXCEPT !.pc = "finally", !.outcome = "failed", !.error = err]

\* a normal return of _setBreakpointPositions
Return(task) == [task EXCEPT !.pc = "finally", !.outcome = "ok"]

\* line 72: sourceMaps.getGeneratedRangesForOriginal(sourceId, url, true)
CallGetGeneratedRanges(task) ==
    [task EXCEPT !.pc = "ranges", !.rangeCalls = @ + 1]

\* lines 94 and 100: client.getBreakpointPositions(generatedSource[, range])
CallClient(task, hasRange, range) ==
    [task EXCEPT !.pc = "fetch",
                 !.clientCalls = Append(@, [source |-> task.generatedSource,
                                            hasRange |-> hasRange,
                                            range |-> range])]

\* mutant of FlattenAndMap: the records are stamped with the requested source
FlattenAndMapRequested(task) ==
    IF task.generatedSource = NoSource
    THEN Throw(task, "TypeError")
    ELSE [task EXCEPT !.pc = "map",
                      !.generated = convertToList(task.results,
                                                  SourceRecord(task.sourceId)),
                      !.mapCalls = @ + 1]

\* lines 103-104: flatten, then sourceMaps.getOriginalLocations(positions);
\* destructuring an undefined source in convertToList is a TypeError
FlattenAndMap(task) ==
    IF task.generatedSource = NoSource
    THEN Throw(task, "TypeError")
    ELSE [task EXCEPT !.pc = "map",
                      !.generated = convertToList(task.results, task.generatedSource),
                      !.mapCalls = @ + 1]

\* mutant of FetchRange: only the first range is fetched
FetchRangeFirstOnly(task) ==
    IF task.idx = 1 /\ task.idx <= Len(task.ranges)
    THEN LET range == NormalizeRange(task.ranges[task.idx])
         IN  CallClient([task EXCEPT !.ranges[task.idx] = range], TRUE, range)
    ELSE FlattenAndMap(task)

\* lines 83-94: the loop, from range number task.idx on
FetchRange(task) ==
    IF task.idx <= Len(task.ranges)
    THEN LET range == NormalizeRange(task.ranges[task.idx])
         IN  CallClient([task EXCEPT !.ranges[task.idx] = range], TRUE, range)
    ELSE FlattenAndMap(task)

\* mutant of StartTask: the task goes on without the source record
StartTaskUnchecked(sourceId, srcs) ==
    LET task == [NoTask EXCEPT !.sourceId = sourceId,
                               !.generatedSource = getSource(srcs, sourceId)]
    IN  IF isOriginalId(sourceId)
        THEN CallGetGeneratedRanges(task)
        ELSE CallClient(task, FALSE, RangeFinite)

\* lines 61-101, up to the first await
StartTask(sourceId, srcs) ==
    LET task == [NoTask EXCEPT !.sourceId = sourceId,
                               !.generatedSource = getSource(srcs, sourceId)]
    IN  IF task.generatedSource = NoSource
        THEN Return([task EXCEPT !.absentAtStart = TRUE])
        ELSE IF isOriginalId(sourceId)
             THEN CallGetGeneratedRanges(task)
             ELSE CallClient(task, FALSE, RangeFinite)

(*************************** calls ****************************************)
NoCall ==
    [pc |-> "idle", sourceId |-> "", task |-> 0, owner |-> FALSE,
     result |-> NoPositions, error |-> "", unchanged |-> FALSE]

Calls == 1..MaxCalls
Tasks == 1..MaxTasks

\* mutant of IsCached: the cache check is skipped
IsCachedNever(table, sourceId) == FALSE

\* line 122
IsCached(table, sourceId) == hasBreakpointPositions(table, sourceId)

\* mutant of IsRegistered: the in-flight check is skipped
IsRegisteredNever(reqs, sourceId) == FALSE

\* line 126
IsRegistered(reqs, sourceId) == reqs[sourceId] # 0

\* mutant of Deregister: the entry is deleted after a success only
DeregisterOnSuccess(reqs, task) ==
    IF task.outcome = "failed" THEN reqs ELSE [reqs EXCEPT ![task.sourceId] = 0]

\* line 133: requests.delete(sourceId)
Deregister(reqs, task) == [reqs EXCEPT ![task.sourceId] = 0]

\* mutant of Completion: a joining call returns what it read before awaiting
CompletionStaleRead(call, task, table) ==
    IF task.outcome = "failed"
    THEN [call EXCEPT !.pc = "raised", !.error = task.error]
    ELSE [call EXCEPT !.pc = "returned",
                      !.result = IF call.owner
                                 THEN getBreakpointPositionsForSource(table, call.sourceId)
                                 ELSE call.result,
                      !.unchanged = TRUE]

\* mutant of Completion: a failure of the task is swallowed
CompletionSwallow(call, task, table) ==
    [call EXCEPT !.pc = "returned",
                 !.result = getBreakpointPositionsForSource(table, call.sourceId),
                 !.unchanged = TRUE]

\* lines 139-140: the call's end once the awaited task has settled
Completion(call, task, table) ==
    IF task.outcome = "failed"
    THEN [call EXCEPT !.pc = "raised", !.error = task.error]
    ELSE [call EXCEPT !.pc = "returned",
                      !.result = getBreakpointPositionsForSource(table, call.sourceId),
                      !.unchanged = TRUE]

Init ==
    /\ sources \in SUBSET SourceIds
    /\ bpPositions = [id \in SourceIds |-> NoPositions]
    /\ requests = [id \in SourceIds |-> 0]
    /\ tasks = [t \in Tasks |-> NoTask]
    /\ nextTask = 0
    /\ calls = [c \in Calls |-> NoCall]

CanCall(c) ==
    /\ calls[c].pc = "idle"
    /\ IF c = 1 THEN TRUE ELSE calls[c - 1].pc # "idle"

\* lines 122-124: the store already holds the positions
CallCached(c, sourceId) ==
    /\ CanCall(c)
    /\ IsCached(bpPositions, sourceId)
    /\ calls' = [calls EXCEPT ![c] =
          [NoCall EXCEPT !.pc = "returned", !.sourceId = sourceId,
                         !.result = getBreakpointPositionsForSource(bpPositions, sourceId),
                         !.unchanged = TRUE]]
    /\ UNCHANGED <<sources, bpPositions, requests, tasks, nextTask>>

\* lines 126-139: no task is registered; start one and await it
CallStart(c, sourceId) ==
    /\ CanCall(c)
    /\ ~IsCached(bpPositions, sourceId)
    /\ ~IsRegistered(requests, sourceId)
    /\ nextTask < MaxTasks
    /\ nextTask' = nextTask + 1
    /\ tasks' = [tasks EXCEPT ![nextTask + 1] = StartTask(sourceId, sources)]
    /\ requests' = [requests EXCEPT ![sourceId] = nextTask + 1]
    /\ calls' = [calls EXCEPT ![c] =
          [NoCall EXCEPT !.pc = "awaiting", !.sourceId = sourceId,
                         !.task = nextTask + 1, !.owner = TRUE]]
    /\ UNCHANGED <<sources, bpPositions>>

\* lines 126, 139: a task is registered; await it
CallJoin(c, sourceId) ==
    /\ CanCall(c)
    /\ ~IsCached(bpPositions, sourceId)
    /\ IsRegistered(requests, sourceId)
    /\ calls' = [calls EXCEPT ![c] =
          [NoCall EXCEPT !.pc = "awaiting", !.sourceId = sourceId,
                         !.task = requests[sourceId]]]
    /\ UNCHANGED <<sources, bpPositions, requests, tasks, nextTask>>

\* line 72 answered: lines 77-94
RangesReturn(t, ranges) ==
    /\ tasks[t].pc = "ranges"
    /\ LET task == tasks[t]
           generatedSourceId == originalToGeneratedId(task.sourceId)
       IN  tasks' = [tasks EXCEPT ![t] =
              FetchRange([task EXCEPT
                  !.rawRanges = ranges,
                  !.ranges = ranges,
                  !.idx = 1,
                  !.generatedSource = getSourceFromId(sources, generatedSourceId)])]
    /\ UNCHANGED <<sources, bpPositions, requests, nextTask, calls>>

RangesFail(t) ==
    /\ tasks[t].pc = "ranges"
    /\ tasks' = [tasks EXCEPT ![t] = Throw(@, "RangesError")]
    /\ UNCHANGED <<sources, bpPositions, requests, nextTask, calls>>

\* lines 94-98 or line 100 answered, then the next range or lines 103-104
FetchReturn(t, bps) ==
    /\ tasks[t].pc = "fetch"
    /\ LET task == tasks[t]
       IN  tasks' = [tasks EXCEPT ![t] =
              IF isOriginalId(task.sourceId)
              THEN FetchRange([task EXCEPT !.fetched = Append(@, bps),
                                           !.results = MergeBps(task.results, bps),
                                           !.idx = task.idx + 1])
              ELSE FlattenAndMap([task EXCEPT !.fetched = Append(@, bps),
                                              !.results = bps])]
    /\ UNCHANGED <<sources, bpPositions, requests, nextTask, calls>>

FetchFail(t) ==
    /\ tasks[t].pc = "fetch"
    /\ tasks' = [tasks EXCEPT ![t] = Throw(@, "ClientError")]
    /\ UNCHANGED <<sources, bpPositions, requests, nextTask, calls>>

\* mutant of CanPublish: the source is not looked up again
CanPublishAlways(srcs, sourceId) == TRUE

\* lines 107-111: is there a source record to publish for
CanPublish(srcs, sourceId) == getSource(srcs, sourceId) # NoSource

\* mutant of PublishSource: the positions go under the generated source
PublishGeneratedSource(srcs, task) == task.generatedSource

\* lines 107, 114: the source the positions are published for
PublishSource(srcs, task) == getSource(srcs, task.sourceId)

\* line 30 answered: lines 34-36, 105-116
MapReturn(t, mode, nullThrows) ==
    /\ tasks[t].pc = "map"
    /\ LET originals == getOriginalLocations(mode, tasks[t].generated)
           mapped == zipLocations(originals, tasks[t].generated)
           task == [tasks[t] EXCEPT !.originals = originals, !.mapped = mapped]
           positions == filterByUniqLocation(mapped)
       IN  IF HasNullLocation(mapped) /\ nullThrows
           THEN /\ tasks' = [tasks EXCEPT ![t] = Throw(task, "TypeError")]
                /\ UNCHANGED bpPositions
           ELSE IF CanPublish(sources, task.sourceId)
                THEN /\ bpPositions' = AddBreakpointPositions(
                            bpPositions, PublishSource(sources, task), positions)
                     /\ tasks' = [tasks EXCEPT ![t] =
                            Return([task EXCEPT !.positions = positions,
                                                !.writes = @ + 1])]
                ELSE /\ tasks' = [tasks EXCEPT ![t] =
                            Return([task EXCEPT !.positions = positions,
                                                !.stale = TRUE])]
                     /\ UNCHANGED bpPositions
    /\ UNCHANGED <<sources, requests, nextTask, calls>>

\* mutant of MapFail: the untranslated positions are published on a failure
MapFailDegraded(t) ==
    /\ tasks[t].pc = "map"
    /\ LET task == tasks[t]
           untranslated == zipLocations(
               getOriginalLocations("unmapped", task.generated), task.generated)
       IN  /\ bpPositions' = AddBreakpointPositions(
                  bpPositions, SourceRecord(task.sourceId), untranslated)
           /\ tasks' = [tasks EXCEPT ![t] =
                  Throw([task EXCEPT !.writes = @ + 1], "MapError")]
    /\ UNCHANGED <<sources, requests, nextTask, calls>>

MapFail(t) ==
    /\ tasks[t].pc = "map"
    /\ tasks' = [tasks EXCEPT ![t] = Throw(@, "MapError")]
    /\ UNCHANGED <<sources, bpPositions, requests, nextTask, calls>>

\* the task once it is over: the locals of _setBreakpointPositions are gone
Settled(task) ==
    [NoTask EXCEPT !.pc = "done", !.sourceId = task.sourceId,
                   !.outcome = task.outcome, !.error = task.error,
                   !.writes = task.writes, !.stale = task.stale,
                   !.absentAtStart = task.absentAtStart]

\* mutant of Awaits: only the call that started the task is resumed
AwaitsOwnerOnly(c, t) ==
    calls[c].pc = "awaiting" /\ calls[c].task = t /\ calls[c].owner

\* line 139: the call c is suspended on the promise of the task t
Awaits(c, t) == calls[c].pc = "awaiting" /\ calls[c].task = t

\* lines 132-134, then 139-140: the wrapper's finally deregisters the task,
\* its promise settles, and the reactions of the calls awaiting it run back
\* to back, each re-reading the store or re-raising
Finally(t) ==
    /\ tasks[t].pc = "finally"
    /\ requests' = Deregister(requests, tasks[t])
    /\ tasks' = [tasks EXCEPT ![t] = Settled(tasks[t])]
    /\ calls' = [c \in Calls |->
          IF Awaits(c, t)
          THEN Completion(calls[c], tasks[t], bpPositions)
          ELSE calls[c]]
    /\ UNCHANGED <<sources, bpPositions, nextTask>>

\* history: the store was changed from outside after these calls ended
ExternalChange(cs) == [c \in Calls |-> [cs[c] EXCEPT !.unchanged = FALSE]]

\* the store loses a source record (a navigation)
RemoveSource(id) ==
    /\ id \in sources
    /\ sources' = sources \ {id}
    /\ calls' = ExternalChange(calls)
    /\ UNCHANGED <<bpPositions, requests, tasks, nextTask>>

\* the store gains a source record (a load)
AddSource(id) ==
    /\ id \notin sources
    /\ sources' = sources \cup {id}
    /\ calls' = ExternalChange(calls)
    /\ UNCHANGED <<bpPositions, requests, tasks, nextTask>>

Next ==
    \/ \E c \in Calls, id \in SourceIds : CallCached(c, id)
    \/ \E c \in Calls, id \in SourceIds : CallStart(c, id)
    \/ \E c \in Calls, id \in SourceIds : CallJoin(c, id)
    \/ \E t \in Tasks, ranges \in RangeLists : RangesReturn(t, ranges)
    \/ \E t \in Tasks : RangesFail(t)
    \/ \E t \in Tasks, bps \in BpsTables : FetchReturn(t, bps)
    \/ \E t \in Tasks : FetchFail(t)
    \/ \E t \in Tasks, mode \in MapModes, nullThrows \in BOOLEAN :
          MapReturn(t, mode, nullThrows)
    \/ \E t \in Tasks : MapFail(t)
    \/ \E t \in Tasks : Finally(t)
    \/ \E id \in SourceIds : RemoveSource(id)
    \/ \E id \in SourceIds : AddSource(id)

Spec == Init /\ [][Next]_vars

(*************************** progress *************************************)
\* progress does not depend on what the collaborators answer, only on
\* whether they return or fail and on how many ranges there are: one table
\* and one translation stand for the answers
LiveBpsTables == { (1 :> <<0>>) }
LiveMapModes == {"same"}

\* the collaborator call the task t is suspended on returns or fails
Answer(t) ==
    \/ \E ranges \in RangeLists : RangesReturn(t, ranges)
    \/ RangesFail(t)
    \/ \E bps \in LiveBpsTables : FetchReturn(t, bps)
    \/ FetchFail(t)
    \/ \E mode \in LiveMapModes : MapReturn(t, mode, FALSE)
    \/ MapFail(t)

LiveNext ==
    \/ \E c \in Calls, id \in SourceIds : CallCached(c, id)
    \/ \E c \in Calls, id \in SourceIds : CallStart(c, id)
    \/ \E c \in Calls, id \in SourceIds : CallJoin(c, id)
    \/ \E t \in Tasks : Answer(t)
    \/ \E t \in Tasks : Finally(t)
    \/ \E id \in SourceIds : RemoveSource(id)
    \/ \E id \in SourceIds : AddSource(id)

\* every pending collaborator call is answered in the end, and the job
\* queue runs the continuation of every task that has returned or thrown;
\* nothing makes a caller call, or the store change
LiveSpec ==
    /\ Init /\ [][LiveNext]_vars
    /\ \A t \in Tasks : WF_vars(Answer(t)) /\ WF_vars(Finally(t))

(*************************** one pipeline *********************************)
\* one call, every source present, the collaborators answering from the
\* wider sets: the runs of _setBreakpointPositions alone
PipeInit == Init /\ sources = SourceIds

PipeNext ==
    \/ \E id \in SourceIds : CallStart(1, id)
    \/ \E t \in Tasks, ranges \in WideRangeLists : RangesReturn(t, ranges)
    \/ \E t \in Tasks, bps \in WideBpsTables : FetchReturn(t, bps)
    \/ \E t \in Tasks, mode \in WideMapModes, nullThrows \in BOOLEAN :
          MapReturn(t, mode, nullThrows)
    \/ \E t \in Tasks : Finally(t)

PipeSpec == PipeInit /\ [][PipeNext]_vars


(*************************** claims ***************************************)
\* a task that is registered and running: started, not yet deregistered
Registered(t) == tasks[t].pc \in {"ranges", "fetch", "map", "finally"}

RunningFor(id) == {t \in Tasks : Registered(t) /\ tasks[t].sourceId = id}

\* the call c starts in this step, for id
Starts(c, id) ==
    calls[c].pc = "idle" /\ calls'[c].pc # "idle" /\ calls'[c].sourceId = id

\* the call c ends in this step
Ends(c) == calls[c].pc = "awaiting" /\ calls'[c].pc # "awaiting"

\* C1: in every reachable state at most one resolution task is registered
\* and running per source id, and it is the one the in-flight map holds
C1_AtMostOneTaskPerSource ==
    \A id \in SourceIds :
        /\ Cardinality(RunningFor(id)) <= 1
        /\ RunningFor(id) = IF requests[id] = 0 THEN {} ELSE {requests[id]}

\* two calls for one id are awaiting its single registered task
C1_Witness ==
    \E c1, c2 \in Calls :
        /\ c1 # c2
        /\ calls[c1].pc = "awaiting" /\ calls[c2].pc = "awaiting"
        /\ calls[c1].sourceId = calls[c2].sourceId
        /\ Registered(calls[c1].task)

\* C2: a call for an uncached id that starts while a task for the id is
\* registered starts no task and issues no collaborator call; it awaits the
\* registered task, so that one task runs the one fetch/translate cycle
C2_JoinRunsNothing ==
    /\ [][\A c \in Calls, id \in SourceIds :
            (Starts(c, id) /\ ~bpPositions[id].has /\ RunningFor(id) # {})
            => /\ tasks' = tasks
               /\ nextTask' = nextTask
               /\ bpPositions' = bpPositions
               /\ calls'[c].pc = "awaiting"
               /\ calls'[c].task \in RunningFor(id)]_vars
    /\ [](\A t \in Tasks :
            /\ tasks[t].rangeCalls <= 1
            /\ tasks[t].mapCalls <= 1
            /\ Len(tasks[t].clientCalls) <=
                   IF isOriginalId(tasks[t].sourceId)
                   THEN Len(tasks[t].rawRanges) ELSE 1)

\* a second call has joined a task whose collaborator call is pending
C2_Witness ==
    \E c \in Calls :
        /\ calls[c].pc = "awaiting" /\ ~calls[c].owner
        /\ tasks[calls[c].task].pc \in {"ranges", "fetch", "map"}

\* C3: the calls that awaited one task end alike: all return the same value,
\* the one the store holds once the task is over, or all raise
C3_SameOutcome ==
    /\ [](\A c1, c2 \in Calls :
            (/\ calls[c1].task # 0 /\ calls[c1].task = calls[c2].task
             /\ calls[c1].pc \in {"returned", "raised"}
             /\ calls[c2].pc \in {"returned", "raised"})
            => /\ calls[c1].pc = calls[c2].pc
               /\ calls[c1].result = calls[c2].result
               /\ calls[c1].error = calls[c2].error)
    /\ [][\A c \in Calls :
            (Ends(c) /\ calls'[c].pc = "returned")
            => calls'[c].result = bpPositions'[calls[c].sourceId]]_vars

\* the owner and a joiner of one task have returned its published positions
C3_Witness ==
    \E c1, c2 \in Calls :
        /\ calls[c1].owner /\ ~calls[c2].owner
        /\ calls[c1].task = calls[c2].task /\ calls[c1].task # 0
        /\ calls[c1].pc = "returned" /\ calls[c2].pc = "returned"
        /\ calls[c2].result.has /\ calls[c2].result.list # <<>>

\* C4: a call for an id whose positions the store holds returns them and
\* changes nothing: no collaborator call, no task, no entry, no store write
C4_CacheFirst ==
    [][\A c \in Calls, id \in SourceIds :
          (Starts(c, id) /\ bpPositions[id].has)
          => /\ calls'[c].pc = "returned"
             /\ calls'[c].result = bpPositions[id]
             /\ calls'[c].task = 0
             /\ tasks' = tasks
             /\ nextTask' = nextTask
             /\ requests' = requests
             /\ bpPositions' = bpPositions]_vars

\* a call has returned cached positions without a task
C4_Witness ==
    \E c \in Calls :
        /\ calls[c].pc = "returned" /\ calls[c].task = 0
        /\ calls[c].result.has /\ calls[c].result.list # <<>>


CollaboratorErrors == {"RangesError", "ClientError", "MapError"}

\* the task t has issued its first collaborator call
HasFetched(t) == tasks[t].rangeCalls = 1 \/ Len(tasks[t].clientCalls) >= 1

\* C5: a task that failed is no longer in the in-flight map once it is over,
\* and a later call for its id, still uncached, starts a fresh task that
\* issues a new collaborator request
C5_RetryAfterFailure ==
    /\ [](\A t \in Tasks :
            (tasks[t].pc = "done" /\ tasks[t].outcome = "failed")
            => requests[tasks[t].sourceId] # t)
    /\ [][\A c \in Calls, id \in SourceIds, t \in Tasks :
            (/\ Starts(c, id) /\ ~bpPositions[id].has
             /\ tasks[t].pc = "done" /\ tasks[t].outcome = "failed"
             /\ tasks[t].error \in CollaboratorErrors
             /\ tasks[t].sourceId = id /\ RunningFor(id) = {})
            => /\ nextTask' = nextTask + 1
               /\ calls'[c].task = nextTask' /\ calls'[c].owner
               /\ requests'[id] = nextTask'
               /\ tasks'[nextTask'].sourceId = id
               /\ (id \in sources =>
                     \/ tasks'[nextTask'].rangeCalls = 1
                     \/ Len(tasks'[nextTask'].clientCalls) = 1)]_vars

\* after a task of an id failed, a second task for it has issued a request
C5_Witness ==
    \E t1, t2 \in Tasks :
        /\ t1 < t2 /\ tasks[t1].sourceId = tasks[t2].sourceId
        /\ tasks[t1].pc = "done" /\ tasks[t1].outcome = "failed"
        /\ tasks[t1].error \in CollaboratorErrors
        /\ Registered(t2) /\ HasFetched(t2)

\* C6: when a collaborator call of a task fails, no call that awaits the
\* task returns a value; once the task is over its owner and every call
\* that awaited it have raised that same failure
C6_FailureToAllCallers ==
    \A c \in Calls :
        (calls[c].task # 0 /\ tasks[calls[c].task].outcome = "failed"
         /\ tasks[calls[c].task].error \in CollaboratorErrors)
        => /\ calls[c].pc \in {"awaiting", "raised"}
           /\ calls[c].pc = "raised" <=> tasks[calls[c].task].pc = "done"
           /\ calls[c].pc = "raised" => calls[c].error = tasks[calls[c].task].error

\* the owner and a joiner have raised the client's failure
C6_Witness ==
    \E c1, c2 \in Calls :
        /\ c1 # c2 /\ calls[c1].task = calls[c2].task
        /\ calls[c1].pc = "raised" /\ calls[c2].pc = "raised"
        /\ calls[c1].error = "ClientError"

\* the collaborator calls a task makes before it may publish
CycleComplete(task) ==
    /\ task.mapCalls = 1
    /\ Len(task.clientCalls) =
          IF isOriginalId(task.sourceId) THEN Len(task.rawRanges) ELSE 1
    /\ isOriginalId(task.sourceId) => task.rangeCalls = 1

\* C7: a task writes to the store at most once, only when every fetch and
\* the translation have succeeded; a task that failed has written nothing
C7_AllOrNothing ==
    /\ [](\A t \in Tasks :
            /\ tasks[t].writes <= 1
            /\ tasks[t].outcome # "ok" => tasks[t].writes = 0)
    /\ [][bpPositions' # bpPositions
          => \E t \in Tasks :
                /\ tasks[t].pc = "map" /\ tasks'[t].pc = "finally"
                /\ tasks'[t].outcome = "ok"
                /\ tasks[t].writes = 0 /\ tasks'[t].writes = 1
                /\ CycleComplete(tasks[t])
                /\ \A id \in SourceIds \ {tasks[t].sourceId} :
                      bpPositions'[id] = bpPositions[id]]_vars

\* one task has published; another failed on its second range and the store
\* holds nothing for its id
C7_Witness ==
    \E t1, t2 \in Tasks :
        /\ tasks[t1].writes = 1
        /\ tasks[t2].pc = "finally" /\ tasks[t2].outcome = "failed"
        /\ tasks[t2].error = "ClientError"
        /\ Len(tasks[t2].clientCalls) = 2
        /\ ~bpPositions[tasks[t2].sourceId].has

\* C8: a task that reaches the publish step (the translation is back and the
\* deduplication did not throw) when the store has no source record for its
\* id writes nothing and does not fail; it is deregistered afterwards and its
\* callers return without error
C8_StaleSourceNoOp ==
    /\ [][\A t \in Tasks :
            (/\ tasks[t].pc = "map" /\ tasks'[t].pc = "finally"
             /\ tasks'[t].error # "MapError" /\ tasks'[t].error # "TypeError"
             /\ tasks[t].sourceId \notin sources)
            => /\ bpPositions' = bpPositions
               /\ tasks'[t].writes = 0
               /\ tasks'[t].outcome = "ok"
               /\ tasks'[t].stale]_vars
    /\ [](\A t \in Tasks :
            tasks[t].stale
            => /\ tasks[t].writes = 0 /\ tasks[t].outcome = "ok"
               /\ tasks[t].pc = "done" => requests[tasks[t].sourceId] # t
               /\ \A c \in Calls :
                     calls[c].task = t
                     => /\ calls[c].pc \in {"awaiting", "returned"}
                        /\ calls[c].pc = "returned" <=> tasks[t].pc = "done")

\* a stale task is over and its owner has returned, the store left empty
C8_Witness ==
    \E c \in Calls :
        /\ calls[c].pc = "returned" /\ calls[c].owner
        /\ tasks[calls[c].task].stale /\ tasks[calls[c].task].pc = "done"
        /\ ~bpPositions[calls[c].sourceId].has
        /\ requests[calls[c].sourceId] = 0


\* C9 as stated: once a call for an id has returned, and for as long as the
\* store is not changed from outside, the store's positions for the id stay
\* what the call returned and every call for the id returns the same
C9_IdempotentAsStated ==
    \A c1, c2 \in Calls :
        (calls[c1].pc = "returned" /\ calls[c1].unchanged)
        => /\ bpPositions[calls[c1].sourceId] = calls[c1].result
           /\ (/\ calls[c2].pc = "returned" /\ calls[c2].unchanged
               /\ calls[c2].sourceId = calls[c1].sourceId)
              => calls[c2].result = calls[c1].result

\* C9 amended: once a call for an id has returned positions the store holds,
\* the store's positions for the id stay what the call returned, and every
\* call for the id that ends afterwards returns the same
C9_IdempotentOncePublished ==
    /\ [](\A c \in Calls :
            (calls[c].pc = "returned" /\ calls[c].result.has)
            => bpPositions[calls[c].sourceId] = calls[c].result)
    /\ [][\A c1, c2 \in Calls :
            (/\ calls[c1].pc = "returned" /\ calls[c1].result.has
             /\ calls[c2].pc \in {"idle", "awaiting"}
             /\ calls'[c2].pc \notin {"idle", "awaiting"}
             /\ calls'[c2].sourceId = calls[c1].sourceId)
            => /\ calls'[c2].pc = "returned"
               /\ calls'[c2].result = calls[c1].result
               /\ bpPositions' = bpPositions]_vars

\* a call returned the positions its task published; a later call for the
\* id returned them from the store
C9_Witness ==
    \E c1, c2 \in Calls :
        /\ calls[c1].pc = "returned" /\ calls[c1].owner
        /\ calls[c2].pc = "returned" /\ calls[c2].task = 0
        /\ calls[c1].sourceId = calls[c2].sourceId
        /\ calls[c1].result.has /\ calls[c1].result.list # <<>>
        /\ calls[c2].result = calls[c1].result

\* the range a client call must carry for the range the source map returned
ExpectedRange(range) ==
    IF range.end.column = Infinity
    THEN [start |-> range.start,
          end |-> [line |-> range.end.line + 1, column |-> 0]]
    ELSE range

\* C10: on the original-source path the i-th client call carries the i-th
\* range the source map returned, with an unbounded end moved to column 0 of
\* the next line and anything else as returned
C10_RangeNormalization ==
    \A t \in Tasks :
        (Registered(t) /\ isOriginalId(tasks[t].sourceId))
        => /\ Len(tasks[t].clientCalls) <= Len(tasks[t].rawRanges)
           /\ \A i \in 1..Len(tasks[t].clientCalls) :
                 /\ tasks[t].clientCalls[i].hasRange
                 /\ tasks[t].clientCalls[i].range =
                       ExpectedRange(tasks[t].rawRanges[i])

\* a task has passed an unbounded range, rewritten, and then a finite one
C10_Witness ==
    \E t \in Tasks :
        /\ Registered(t) /\ Len(tasks[t].clientCalls) = 2
        /\ tasks[t].rawRanges[1].end.column = Infinity
        /\ tasks[t].clientCalls[1].range.end = Pos(3, 0)
        /\ tasks[t].rawRanges[2].end.column # Infinity
        /\ tasks[t].clientCalls[2].range = tasks[t].rawRanges[2]

\* a task whose pipeline ran through the deduplication and returned
Resolved(t) ==
    /\ tasks[t].pc = "finally" /\ tasks[t].outcome = "ok"
    /\ ~tasks[t].absentAtStart

\* the identity of the original location of a mapped entry
OriginalIdentity(entry) ==
    <<entry.location.sourceId, entry.location.line, entry.location.column>>

\* the indices of the entries no earlier entry shares its original identity with
FirstOccurrences(mapped) ==
    { i \in 1..Len(mapped) :
        \A j \in 1..(i - 1) :
            OriginalIdentity(mapped[j]) # OriginalIdentity(mapped[i]) }

\* the k-th smallest index of a set of indices
NthOf(S, k) == CHOOSE i \in S : Cardinality({ j \in S : j <= i }) = k

\* C11: the deduplicated sequence is the mapped sequence restricted to the
\* first occurrence of every original identity (sourceId, line, column), in
\* input order: it is a subsequence, no two of its entries share an original
\* identity, and of two entries with one original location and different
\* generated locations the earlier one stays
C11_FirstOccurrenceKept ==
    \A t \in Tasks :
        (Resolved(t) /\ ~HasNullLocation(tasks[t].mapped))
        => LET mapped == tasks[t].mapped
               positions == tasks[t].positions
               keep == FirstOccurrences(mapped)
           IN  /\ Len(positions) = Cardinality(keep)
               /\ \A k \in 1..Len(positions) :
                     positions[k] = mapped[NthOf(keep, k)]
               /\ \A k, l \in 1..Len(positions) :
                     k # l => OriginalIdentity(positions[k])
                                # OriginalIdentity(positions[l])

\* three translated entries, the second with the original location of the
\* first and another generated location: the first and the third are left
C11_Witness ==
    \E t \in Tasks :
        /\ Resolved(t) /\ ~HasNullLocation(tasks[t].mapped)
        /\ Len(tasks[t].mapped) = 3 /\ Len(tasks[t].positions) = 2
        /\ OriginalIdentity(tasks[t].mapped[1]) = OriginalIdentity(tasks[t].mapped[2])
        /\ tasks[t].mapped[1].generatedLocation # tasks[t].mapped[2].generatedLocation
        /\ tasks[t].positions = <<tasks[t].mapped[1], tasks[t].mapped[3]>>

\* the identity of the generated location of a mapped entry
GeneratedIdentity(entry) ==
    <<entry.generatedLocation.sourceId, entry.generatedLocation.line,
      entry.generatedLocation.column>>

\* a task whose translation has answered
Translated(t) ==
    /\ tasks[t].pc = "finally" /\ tasks[t].mapCalls = 1
    /\ tasks[t].error # "MapError"

\* C12: when the translation answers null for an entry, the deduplication
\* keys the entry by its generated location: the resolution does not fail,
\* and an untranslated entry is dropped only if an earlier untranslated
\* entry has the same generated location
C12_NullFallbackKey ==
    \A t \in Tasks :
        (Translated(t) /\ HasNullLocation(tasks[t].mapped))
        => /\ tasks[t].outcome = "ok"
           /\ \A i \in 1..Len(tasks[t].mapped) :
                 tasks[t].mapped[i].location = NullLocation
                 => \/ \E k \in 1..Len(tasks[t].positions) :
                          tasks[t].positions[k] = tasks[t].mapped[i]
                    \/ \E j \in 1..(i - 1) :
                          /\ tasks[t].mapped[j].location = NullLocation
                          /\ GeneratedIdentity(tasks[t].mapped[j])
                                = GeneratedIdentity(tasks[t].mapped[i])

\* C13: for the k generated locations submitted in the one
\* getOriginalLocations call, the mapped sequence has length k and its i-th
\* entry pairs the i-th returned location with the i-th submitted one,
\* whatever the values are
C13_IndexCorrespondence ==
    \A t \in Tasks :
        Translated(t)
        => /\ Len(tasks[t].mapped) = Len(tasks[t].generated)
           /\ \A i \in 1..Len(tasks[t].generated) :
                 /\ tasks[t].mapped[i].location = tasks[t].originals[i]
                 /\ tasks[t].mapped[i].generatedLocation = tasks[t].generated[i]

\* the translation answered with the coordinates of the last submitted
\* location at index 1: the first entry pairs them with the first location
C13_Witness ==
    \E t \in Tasks :
        LET k == Len(tasks[t].generated)
        IN  /\ Translated(t) /\ k >= 2
            /\ tasks[t].originals[1].line = tasks[t].generated[k].line
            /\ tasks[t].originals[1].column = tasks[t].generated[k].column
            /\ <<tasks[t].generated[1].line, tasks[t].generated[1].column>>
                 # <<tasks[t].generated[k].line, tasks[t].generated[k].column>>
            /\ tasks[t].mapped[1].location = tasks[t].originals[1]
            /\ tasks[t].mapped[1].generatedLocation = tasks[t].generated[1]

\* the task t returns from the translation in this step, its pipeline
\* succeeds and the record of its source is in the store
Publishes(t) ==
    /\ tasks[t].pc = "map" /\ tasks'[t].pc = "finally"
    /\ tasks'[t].outcome = "ok"
    /\ getSource(sources, tasks[t].sourceId) # NoSource

\* C14: a resolution for S that succeeds with the source still in the store
\* writes the store once, under S itself (also when S is an original source
\* resolved through its generated source), the value being the deduplicated
\* mapped sequence, every entry the pair of a generated location and of the
\* original location the translation returned for it; the calls awaiting the
\* task return that published value, and a later call for S is a cache hit
C14_PublishedSet ==
    /\ [][\A t \in Tasks :
            Publishes(t)
            => LET S == tasks[t].sourceId
                   list == bpPositions'[S].list
               IN  /\ bpPositions'[S].has
                   /\ list = filterByUniqLocation(tasks'[t].mapped)
                   /\ list = tasks'[t].positions
                   /\ \A id \in SourceIds \ {S} : bpPositions'[id] = bpPositions[id]
                   /\ tasks[t].writes = 0 /\ tasks'[t].writes = 1
                   /\ \A k \in 1..Len(list) :
                         /\ \E i \in 1..Len(tasks'[t].generated) :
                               list[k] = [location |-> tasks'[t].originals[i],
                                          generatedLocation |-> tasks'[t].generated[i]]
                         /\ list[k].generatedLocation # NullLocation
                         /\ ~HasNullLocation(tasks'[t].mapped)
                            => list[k].location # NullLocation]_vars
    /\ [][\A c \in Calls, t \in Tasks :
            (Awaits(c, t) /\ Ends(c) /\ tasks[t].outcome = "ok"
                /\ tasks[t].writes = 1)
            => /\ calls'[c].pc = "returned"
               /\ calls'[c].result = [has |-> TRUE, list |-> tasks[t].positions]
               /\ calls'[c].result = bpPositions'[calls[c].sourceId]]_vars
    /\ [][\A c \in Calls, id \in SourceIds :
            (Starts(c, id) /\ bpPositions[id].has)
            => /\ calls'[c].pc = "returned" /\ calls'[c].task = 0
               /\ calls'[c].result = bpPositions[id]
               /\ UNCHANGED <<bpPositions, requests, tasks>>]_vars

\* a call for the original source has returned the positions its task
\* published under the original id, nothing is held for the generated
\* source, and the next call for the original source was a cache hit
C14_Witness ==
    /\ calls[1].pc = "returned" /\ calls[1].task # 0
    /\ calls[1].sourceId = OrigId
    /\ bpPositions[OrigId].has /\ ~bpPositions[GenId].has
    /\ Len(bpPositions[OrigId].list) >= 2
    /\ calls[1].result = bpPositions[OrigId]
    /\ bpPositions[OrigId].list[1].location.sourceId = OrigId
    /\ bpPositions[OrigId].list[1].generatedLocation.sourceId = GenId
    /\ calls[2].pc = "returned" /\ calls[2].task = 0
    /\ calls[2].sourceId = OrigId /\ calls[2].result = calls[1].result

\* the call c is over and was served by a task
CompletedOn(c) == calls[c].pc \in {"returned", "raised"} /\ calls[c].task # 0

\* C15: the in-flight map holds a task only while that one attempt runs:
\* a task that is over, by whichever exit (success, failure, stale source,
\* source absent at the start), is no longer in the map, and when a call
\* that awaited a task has returned or raised, that task is over and is not
\* the one the map holds for the id
C15_RegistrationScoped ==
    /\ \A id \in SourceIds :
          requests[id] # 0
          => /\ Registered(requests[id])
             /\ tasks[requests[id]].sourceId = id
    /\ \A t \in Tasks :
          tasks[t].pc = "done" => requests[tasks[t].sourceId] # t
    /\ \A c \in Calls :
          CompletedOn(c)
          => /\ tasks[calls[c].task].pc = "done"
             /\ requests[calls[c].sourceId] # calls[c].task

\* one call has raised the failure of its task and another has returned
\* from a task that found its source gone at the publish step; the map is
\* empty
C15_Witness ==
    /\ \A id \in SourceIds : requests[id] = 0
    /\ \E c, d \in Calls :
          /\ calls[c].pc = "raised" /\ CompletedOn(c)
          /\ tasks[calls[c].task].outcome = "failed"
          /\ calls[d].pc = "returned" /\ CompletedOn(d)
          /\ tasks[calls[d].task].stale

\* the task t has left its fetch phase without a failed collaborator call
FetchesDone(t) ==
    /\ tasks[t].pc \in {"map", "finally"}
    /\ ~tasks[t].absentAtStart
    /\ tasks[t].error \notin {"RangesError", "ClientError"}

\* C16: a task for a generated source asks the client exactly once, for the
\* source and with no range; a task for an original source asks it once per
\* range getGeneratedRangesForOriginal returned, in that order, with the
\* normalized range and on the record the store holds for
\* originalToGeneratedId of the requested id (never on the requested source),
\* hence not at all when no range came back; before its fetches are done a
\* task has asked no more than that
C16_ClientFetches ==
    \A t \in Tasks :
        Registered(t)
        => LET S == tasks[t].sourceId
               asked == tasks[t].clientCalls
           IN  IF isOriginalId(S)
               THEN /\ Len(asked) <= Len(tasks[t].rawRanges)
                    /\ FetchesDone(t) => Len(asked) = Len(tasks[t].rawRanges)
                    /\ \A i \in 1..Len(asked) :
                          /\ asked[i].hasRange
                          /\ asked[i].range = ExpectedRange(tasks[t].rawRanges[i])
                          /\ asked[i].source # SourceRecord(S)
                          /\ asked[i].source # NoSource
                             => asked[i].source.id = originalToGeneratedId(S)
               ELSE /\ Len(asked) <= 1
                    /\ (FetchesDone(t) \/ tasks[t].pc = "fetch") => Len(asked) = 1
                    /\ \A i \in 1..Len(asked) :
                          /\ ~asked[i].hasRange
                          /\ asked[i].source = SourceRecord(S)

\* a task for an original source has
\* asked the client twice, on the generated source, and is at the
\* translation, while a task for the generated source has asked once with
\* no range
C16_Witness ==
    \E t, u \in Tasks :
        /\ tasks[t].sourceId = OrigId /\ tasks[t].pc = "map"
        /\ Len(tasks[t].rawRanges) = 2 /\ Len(tasks[t].clientCalls) = 2
        /\ tasks[t].clientCalls[1].source = SourceRecord(GenId)
        /\ tasks[t].clientCalls[2].range = tasks[t].rawRanges[2]
        /\ tasks[u].sourceId = GenId /\ tasks[u].pc = "map"
        /\ Len(tasks[u].clientCalls) = 1
        /\ ~tasks[u].clientCalls[1].hasRange

\* a task for an original source got no range: it is at the translation
\* and the client was never asked
C16_WitnessNoRange ==
    \E t \in Tasks :
        /\ tasks[t].sourceId = OrigId /\ tasks[t].pc = "map"
        /\ tasks[t].rangeCalls = 1 /\ tasks[t].rawRanges = <<>>
        /\ tasks[t].clientCalls = <<>>

\* the columns the first n per-range answers hold for a line, end to end
RECURSIVE ColumnsInRangeOrder(_, _, _)
ColumnsInRangeOrder(fetched, n, line) ==
    IF n = 0 THEN <<>>
    ELSE ColumnsInRangeOrder(fetched, n - 1, line)
         \o (IF line \in DOMAIN fetched[n] THEN fetched[n][line] ELSE <<>>)

\* C17: on the original-source path the merged table has a key for exactly
\* the lines of at least one per-range answer, and the columns of a line are
\* the column lists of the answers joined in range order, so a (line,
\* column) pair that two ranges returned is there twice
C17_MergeByLine ==
    \A t \in Tasks :
        (Registered(t) /\ isOriginalId(tasks[t].sourceId) /\ FetchesDone(t))
        => LET fetched == tasks[t].fetched
               results == tasks[t].results
           IN  /\ Len(fetched) = Len(tasks[t].rawRanges)
               /\ DOMAIN results =
                     UNION { DOMAIN fetched[i] : i \in 1..Len(fetched) }
               /\ \A line \in DOMAIN results :
                     results[line] =
                         ColumnsInRangeOrder(fetched, Len(fetched), line)

\* two ranges both returned (1, 0), the second alone returned line 2: the
\* merged line 1 holds column 0 twice, in range order
C17_Witness ==
    \E t \in Tasks :
        /\ isOriginalId(tasks[t].sourceId) /\ tasks[t].pc = "map"
        /\ tasks[t].fetched = << (1 :> <<0>>), (1 :> <<0, 1>>) @@ (2 :> <<0>>) >>
        /\ tasks[t].results = (1 :> <<0, 0, 1>>) @@ (2 :> <<0>>)

\* the task t has flattened its table
Flattened(t) ==
    Registered(t) /\ tasks[t].mapCalls = 1

\* the number of columns a table holds over a set of lines
RECURSIVE CountColumns(_, _)
CountColumns(results, lines) ==
    IF lines = {} THEN 0
    ELSE LET line == CHOOSE l \in lines : TRUE
         IN  Len(results[line]) + CountColumns(results, lines \ {line})

\* the columns of the records of one line, in list order
ColumnsAt(list, line) ==
    LET onLine == SelectSeq(list, LAMBDA loc : loc.line = line)
    IN  [i \in 1..Len(onLine) |-> onLine[i].column]

\* C18: the flattened list has one record per (line, column) occurrence of
\* the table, duplicates included, the columns of a line in the order of
\* its column list, and every record carries the id and the url of the
\* generated source: for an original source those of
\* originalToGeneratedId of the requested id, not its own
C18_Flatten ==
    \A t \in Tasks :
        Flattened(t)
        => LET results == tasks[t].results
               list == tasks[t].generated
               S == tasks[t].sourceId
               G == IF isOriginalId(S) THEN originalToGeneratedId(S) ELSE S
           IN  /\ Len(list) = CountColumns(results, DOMAIN results)
               /\ \A i \in 1..Len(list) : list[i].line \in DOMAIN results
               /\ \A line \in DOMAIN results :
                     ColumnsAt(list, line) = results[line]
               /\ \A i \in 1..Len(list) :
                     /\ list[i].sourceId = G
                     /\ list[i].sourceUrl = UrlOf(G)

\* the table merged for an original source holds (1, 0) twice, around
\* (1, 1): four records in list order, all of the generated source
C18_Witness ==
    \E t \in Tasks :
        /\ Flattened(t) /\ tasks[t].sourceId = OrigId
        /\ tasks[t].results = (1 :> <<0, 1, 0>>) @@ (3 :> <<1>>)
        /\ Len(tasks[t].generated) = 4
        /\ ColumnsAt(tasks[t].generated, 1) = <<0, 1, 0>>
        /\ tasks[t].generated[1] = tasks[t].generated[3]
        /\ tasks[t].generated[1].sourceId = GenId
        /\ tasks[t].generated[1].sourceUrl = UrlOf(GenId)
        /\ UrlOf(GenId) # UrlOf(OrigId)

\* the task t made no collaborator call and no store write
Untouched(task) ==
    /\ task.rangeCalls = 0 /\ task.clientCalls = <<>> /\ task.mapCalls = 0
    /\ task.writes = 0

\* C20: a task that starts while the store has no record of its source
\* returns at once, with no collaborator call and no store write; it is
\* then deregistered like any other, nothing is raised, and the calls that
\* awaited it return what the store holds for the id, which is no positions
C20_AbsentAtStart ==
    /\ [][\A c \in Calls, id \in SourceIds :
            (Starts(c, id) /\ calls'[c].task # 0 /\ calls'[c].owner
                /\ getSource(sources, id) = NoSource)
            => LET task == tasks'[calls'[c].task]
               IN  /\ task.pc = "finally" /\ task.outcome = "ok"
                   /\ task.absentAtStart
                   /\ Untouched(task)
                   /\ requests'[id] = calls'[c].task
                   /\ bpPositions' = bpPositions]_vars
    /\ [][\A t \in Tasks :
            (tasks[t].absentAtStart /\ tasks[t].pc = "finally"
                /\ tasks'[t].pc = "done")
            => /\ Untouched(tasks[t])
               /\ requests'[tasks[t].sourceId] = 0
               /\ bpPositions' = bpPositions
               /\ \A c \in Calls :
                     Awaits(c, t)
                     => /\ calls'[c].pc = "returned"
                        /\ calls'[c].error = ""
                        /\ calls'[c].result = bpPositions[tasks[t].sourceId]
                        /\ calls'[c].result = NoPositions]_vars
    /\ [](\A t \in Tasks :
            tasks[t].absentAtStart
            => tasks[t].outcome = "ok" /\ tasks[t].writes = 0)

\* the owner and a joiner of a task that found no source record have both
\* returned no positions; the task is over and the map is empty
C20_Witness ==
    \E t \in Tasks :
        /\ tasks[t].absentAtStart /\ tasks[t].pc = "done"
        /\ requests[tasks[t].sourceId] = 0
        /\ ~bpPositions[tasks[t].sourceId].has
        /\ \A c \in {1, 2} :
              /\ calls[c].pc = "returned" /\ calls[c].task = t
              /\ calls[c].result = NoPositions

\* the task t is suspended on a collaborator call
Suspended(t) == tasks[t].pc \in {"ranges", "fetch", "map"}

\* C19: there is no cancellation and no timeout. When every collaborator
\* call returns or fails in the end, no call awaits a task for ever (it
\* leaves the await by returning or raising) and no id stays in the
\* in-flight map for ever.
\* While a collaborator call of a task is unanswered the task stays
\* registered and no call that awaits it is over, and nothing but the
\* answer moves the task: a task suspended for ever keeps its owner and its
\* joiners suspended for ever
C19_RunsToCompletion ==
    /\ \A c \in Calls : []<>(calls[c].pc # "awaiting")
    /\ [][\A c \in Calls :
            Ends(c) => calls'[c].pc \in {"returned", "raised"}]_vars
    /\ \A id \in SourceIds : []<>(requests[id] = 0)
    /\ [](\A t \in Tasks :
            Suspended(t)
            => /\ requests[tasks[t].sourceId] = t
               /\ \A c \in Calls :
                     (calls[c].pc # "idle" /\ calls[c].task = t)
                     => calls[c].pc = "awaiting")
    /\ [][\A t \in Tasks :
            (Suspended(t) /\ tasks'[t] # tasks[t])
            => /\ Answer(t)
               /\ tasks'[t].pc \in {"fetch", "map", "finally"}]_vars

\* the owner and a joiner of a task that went through every collaborator
\* and published have both returned, and the map is empty
C19_Witness ==
    \E t \in Tasks :
        /\ tasks[t].pc = "done" /\ tasks[t].writes = 1
        /\ \A id \in SourceIds : requests[id] = 0
        /\ \E c, d \in Calls :
              /\ c # d
              /\ calls[c].pc = "returned" /\ calls[c].task = t /\ calls[c].owner
              /\ calls[d].pc = "returned" /\ calls[d].task = t /\ ~calls[d].owner

====
